---- MODULE Spec2Model ----
(***************************************************************************)
(* Digitizer acquisition backends of qtt:                                  *)
(*   M4iDigitizer   (src/src/qtt/measurements/acquisition/m4i_digiziter.py)*)
(*   UhfliDigitizer (src/src/qtt/measurements/acquisition/uhfli_digitizer.py)*)
(* One backend instance bound to one device.  Every public method is one   *)
(* action, except UhfliDigitizer.acquire, whose polling loop takes one     *)
(* step per poll of the device.                                            *)
(*                                                                         *)
(* Units: period in microseconds, sample rates in Hz, so that              *)
(* int(period * sample_rate) is (period_us * rate) \div 10^6; time in      *)
(* clock ticks; the scope's progress fraction in percent.                  *)
(***************************************************************************)
EXTENDS Integers, Sequences, FiniteSets, TLC

VARIABLES
    backend,     \* which class was constructed: "M4i" or "Uhfli"
    m4i_self,    \* attributes of the M4iDigitizer instance
    m4i_dev,     \* the M4i driver object behind self._digitizer
    uhfli_self,  \* attributes of the UhfliDigitizer instance
    uhfli_dev,   \* the ZIUHFLI driver object behind self._digitizer
    pc,          \* "idle", or "loop" inside UhfliDigitizer.__get_uhfli_scope_records
    frame,       \* locals of the latest run of __get_uhfli_scope_records
    call,        \* the last public call: its name, arguments, outcome, device operations
    lifecycle    \* "Acquiring" from a start_acquisition that returned until the next
                 \* stop_acquisition call, else "Idle" (kept by no attribute: a record
                 \* of the calls made)

vars == <<backend, m4i_self, m4i_dev, uhfli_self, uhfli_dev, pc, frame, call, lifecycle>>

----------------------------------------------------------------------------
(* Bounds of the model                                                     *)

MaxSegments == 4
MaxAverages == 4
MaxRecords == 3
MaxTimeout == 5
MaxTick == 2

\* Python's None, where an attribute or argument may be None or a number
None == 0 - 1

PeriodsUs == {10, 1000, 1001}
SampleRates == {0, 250000, 1000000, 2000000}
MaxSampleRates == {1000000}
MemoryCapacities == {2048, 4096}
SignalDelays == {None, 0, 1}
ChannelLists == {<<0, 1>>}
RangesMv == {None, 1000}
Averages == (0 - 1) .. MaxAverages
Timeouts == 0 .. MaxTimeout
ElapsedCap == MaxTimeout + 1

----------------------------------------------------------------------------
(* Module-level helpers of m4i_digiziter.py                                *)

\* int(n * np.ceil(input_data / n))
ceil_n(input_data, n) == n * (0 - ((0 - input_data) \div n))

\* int(n * np.floor(x // n))
floor_n(x, n) == n * (x \div n)

Min(a, b) == IF a < b THEN a ELSE b

\* Names bound in the global namespace of m4i_digiziter.py (imports, the class,
\* the two functions).  A bare name that a method never assigns is looked up
\* here; a miss raises NameError.
M4iModuleGlobals ==
    {"logging", "Any", "List", "Optional", "np", "M4i", "pyspcm",
     "DigitizerInterface", "M4iDigitizer", "ceil_n", "floor_n"}

\* Attributes DigitizerInterface.__init__ and UhfliDigitizer.__init__ set on the
\* instance; reading any other attribute of self raises AttributeError.
UhfliInstanceAttributes ==
    {"_adapter", "_digitizer", "_UhfliDigitizer__acquisition_counter"}

----------------------------------------------------------------------------
(* Outcomes of a method call                                               *)

\* The value of a call that returned none, or raised
NoResult == [rows |-> None, cols |-> None, zeros |-> None, records |-> None]

\* What a call did: the instance and device it leaves, the exception class it
\* raised ("None" when it returned), the device operations it performed.
Outcome(self, dev, raised, ops) ==
    [self |-> self, dev |-> dev, raised |-> raised, ops |-> ops, result |-> NoResult]

\* A call that returned a matrix of rows x cols, of which the last zeros columns
\* are padding, each row averaged over records records (None where the
\* averaging is the device's)
Returning(self, dev, ops, rows, cols, zeros, records) ==
    [self |-> self, dev |-> dev, raised |-> "None", ops |-> ops,
     result |-> [rows |-> rows, cols |-> cols, zeros |-> zeros, records |-> records]]

Max(a, b) == IF a > b THEN a ELSE b

MicrosPerSecond == 1000 * 1000

----------------------------------------------------------------------------
(* M4iDigitizer                                                            *)

basic_pretrigger_size == 16

re_arm_samples == 40

\* M4iDigitizer.__fix_m4i_acquisition: read both trigger settings, then set them
fix_m4i_acquisition(self, dev) ==
    Outcome(self,
            [dev EXCEPT !.external_trigger_mode = "SPC_TM_POS",
                        !.trigger_or_mask = "SPC_TMASK_EXT0"],
            "None",
            {"get:trigger_or_mask", "get:external_trigger_mode",
             "set:external_trigger_mode", "set:trigger_or_mask"})

\* M4iDigitizer.initialize
M4i_initialize(self, dev, a) ==
    fix_m4i_acquisition(
        [self EXCEPT !.initialized = TRUE,
                     !.verbose = a.verbose,
                     !.period = a.period,
                     !.mV_range = a.mV_range,
                     !.channels = a.channels,
                     !.average_traces = a.average_traces,
                     !.number_of_segments = a.number_of_segments,
                     !.trigger_re_arm_padding = a.trigger_re_arm_padding,
                     !.trigger_re_arm_compensation = a.trigger_re_arm_compensation,
                     !.memory_settings = <<>>],
        dev)

\* Lines 135-158 of __select_m4i_memory_size, given the truth value of the test
\* on line 135 and the locals p computed above it.  memsize is a local assigned
\* on line 141 only: when the test is false, reading it on line 146 raises
\* UnboundLocalError.  With verbose set, line 152 reads the bare name period,
\* which no scope binds.
select_m4i_memory_size_tail(self, dev, compensate, p) ==
    LET max_segment_size_re_arm ==
            floor_n(p.number_points_period - p.pre_trigger - re_arm_samples, 16)
        post_trigger == Min(p.post_trigger, max_segment_size_re_arm)
        memsize == (p.pre_trigger + post_trigger) * self.number_of_segments
        signal_start == basic_pretrigger_size + p.trigger_delay_points
        signal_end == signal_start + p.number_points_period
    IN  IF ~compensate
        THEN Outcome(self, dev, "UnboundLocalError", p.reads)
        ELSE Outcome(
                [self EXCEPT !.memory_settings =
                    <<p.memory_size, p.pre_trigger, signal_start, signal_end>>],
                [dev EXCEPT !.data_memory_size = memsize,
                            !.posttrigger_memory_size = post_trigger],
                IF self.verbose # 0 THEN "NameError" ELSE "None",
                p.reads \cup {"set:data_memory_size", "set:posttrigger_memory_size"})

\* The planner without the capacity test of lines 128-130
select_m4i_memory_size_no_capacity_check(self, dev) ==
    IF dev.exact_sample_rate = 0
    THEN Outcome(self, dev, "ValueError", {"get:exact_sample_rate"})
    ELSE Outcome(self, dev, "NameError", {"get:exact_sample_rate", "get:signal_delay"})

\* M4iDigitizer.__select_m4i_memory_size.  Line 135 tests the bare name
\* trigger_re_arm_compensation (not the attribute of self): a global lookup.
\* Every name the module does bind is a module, class or function, hence truthy.
select_m4i_memory_size(self, dev) ==
    LET sample_rate == dev.exact_sample_rate
        number_points_period == (self.period * sample_rate) \div MicrosPerSecond
        trigger_delay ==
            IF dev.signal_delay = None \/ dev.signal_delay = 0 THEN 0 ELSE dev.signal_delay
        trigger_delay_points == 16 * trigger_delay
        base_segment_size ==
            ceil_n(number_points_period + trigger_delay_points, 16) + basic_pretrigger_size
        memory_size == base_segment_size * self.number_of_segments
        pre_trigger == ceil_n(trigger_delay * sample_rate, 16) + basic_pretrigger_size
        post_trigger == ceil_n(base_segment_size - pre_trigger, 16)
        reads == {"get:exact_sample_rate", "get:signal_delay", "get:memory"}
    IN  IF sample_rate = 0
        THEN Outcome(self, dev, "ValueError", {"get:exact_sample_rate"})
        ELSE IF memory_size > dev.memory
        THEN Outcome(self, dev, "ValueError", reads)
        ELSE IF "trigger_re_arm_compensation" \notin M4iModuleGlobals
        THEN Outcome(self, dev, "NameError", reads)
        ELSE select_m4i_memory_size_tail(self, dev, TRUE,
                [number_points_period |-> number_points_period,
                 trigger_delay_points |-> trigger_delay_points,
                 memory_size |-> memory_size,
                 pre_trigger |-> pre_trigger,
                 post_trigger |-> post_trigger,
                 reads |-> reads])

\* Lines 57-62 of start_acquisition: default the range, plan the memory, then
\* initialise the channels with the planned memory size.
M4i_start_programming(self, dev, reads) ==
    IF ~self.initialized
    THEN Outcome(self, dev, "AttributeError", reads)
    ELSE LET ranged == IF self.mV_range = None
                       THEN [self EXCEPT !.mV_range = dev.range_channel_0]
                       ELSE self
             reads2 == reads \cup (IF self.mV_range = None THEN {"get:range_channel_0"} ELSE {})
             sel == select_m4i_memory_size(ranged, dev)
         IN  IF sel.raised # "None"
             THEN Outcome(sel.self, sel.dev, sel.raised, reads2 \cup sel.ops)
             ELSE Outcome(sel.self,
                          [sel.dev EXCEPT !.channels_memsize = sel.self.memory_settings[1]],
                          "None",
                          reads2 \cup sel.ops \cup {"call:initialize_channels"})

\* start_acquisition without the test against max_sample_rate of lines 53-55
M4i_start_acquisition_no_max_check(self, dev) ==
    IF dev.exact_sample_rate = 0
    THEN Outcome(self, dev, "ValueError", {"get:exact_sample_rate"})
    ELSE M4i_start_programming(self, dev, {"get:exact_sample_rate"})

\* M4iDigitizer.start_acquisition
M4i_start_acquisition(self, dev) ==
    IF dev.exact_sample_rate = 0
    THEN Outcome(self, dev, "ValueError", {"get:exact_sample_rate"})
    ELSE IF dev.exact_sample_rate > dev.max_sample_rate
    THEN Outcome(self, dev, "ValueError", {"get:exact_sample_rate", "get:max_sample_rate"})
    ELSE M4i_start_programming(self, dev, {"get:exact_sample_rate", "get:max_sample_rate"})

\* __collect_data without the unpacking of memory_settings: whatever was
\* captured is returned
collect_data_unchecked(self, dev, ops) ==
    Returning(self, dev, ops, Len(self.channels), dev.data_memory_size, 0, None)

\* data[:, signal_start:signal_end] of a matrix with width columns: the number
\* of columns a slice with non-negative bounds keeps
slice_columns(width, signal_start, signal_end) ==
    Max(0, Min(signal_end, width) - Min(signal_start, width))

\* M4iDigitizer.__trigger_re_arm_padding: the number of zero columns appended
trigger_re_arm_padding(columns, signal_start, signal_end) ==
    (signal_end - signal_start) - columns

\* M4iDigitizer.__collect_data.  Unpacking memory_settings into four names
\* raises ValueError unless it holds four values.  The raw buffer of the
\* block-averaged capture holds data_memory_size samples for each channel; it is
\* reshaped to channels x samples, sliced to the signal window and, with both
\* re-arm flags set, padded (np.zeros raises ValueError on a negative size).
collect_data(self, dev, ops) ==
    IF Len(self.memory_settings) # 4
    THEN Outcome(self, dev, "ValueError", ops)
    ELSE LET signal_start == self.memory_settings[3]
             signal_end == self.memory_settings[4]
             columns == slice_columns(dev.data_memory_size, signal_start, signal_end)
             re_arm_padding == trigger_re_arm_padding(columns, signal_start, signal_end)
         IN  IF self.trigger_re_arm_compensation \notin {None, 0} /\ self.trigger_re_arm_padding
             THEN IF re_arm_padding < 0
                  THEN Outcome(self, dev, "ValueError", ops)
                  ELSE Returning(self, dev, ops, Len(self.channels),
                                 columns + re_arm_padding, re_arm_padding, None)
             ELSE Returning(self, dev, ops, Len(self.channels), columns, 0, None)

\* acquire defaulting the range from the device, as start_acquisition does
M4i_acquire_defaulting_range(self, dev, number_of_averages, timeout) ==
    IF ~self.initialized
    THEN Outcome(self, dev, "AttributeError", {"get:posttrigger_memory_size"})
    ELSE Outcome([self EXCEPT !.mV_range = dev.range_channel_0], dev, "ValueError",
            {"get:posttrigger_memory_size", "get:range_channel_0",
             "call:blockavg_hardware_trigger_acquisition"})

\* M4iDigitizer.acquire: read the post-trigger register, run the block-averaged
\* capture with the caller's number of averages, reduce the raw buffer.
M4i_acquire(self, dev, number_of_averages, timeout) ==
    IF ~self.initialized
    THEN Outcome(self, dev, "AttributeError", {"get:posttrigger_memory_size"})
    ELSE collect_data(self, dev,
            {"get:posttrigger_memory_size", "call:blockavg_hardware_trigger_acquisition"})

\* M4iDigitizer.stop_acquisition: pass
M4i_stop_acquisition(self, dev) ==
    Outcome(self, dev, "None", {})

----------------------------------------------------------------------------
(* UhfliDigitizer                                                          *)

\* progress()[0] is a fraction; the loop compares it with 1.0
ProgressOne == 100

ProgressValues == {0, 50, ProgressOne}

\* The while test with "and" for "or": wait only while both are short
scope_loop_continues_and(records, progress, number_of_averages) ==
    records < number_of_averages /\ progress < ProgressOne

\* The while test on line 89
scope_loop_continues(records, progress, number_of_averages) ==
    records < number_of_averages \/ progress < ProgressOne

\* The loop without its timeout
scope_timed_out_never(elapsed, timeout) ==
    FALSE

\* The test on line 92: time.time() - start > timeout
scope_timed_out(elapsed, timeout) ==
    elapsed > timeout

\* UhfliDigitizer.start_acquisition.  Line 39 sets the scope mode; line 40
\* formats self._address into the node path before subscribing.
Uhfli_start_acquisition(self, dev) ==
    IF "_address" \notin UhfliInstanceAttributes
    THEN Outcome(self, [dev EXCEPT !.scope_mode = 1], "AttributeError",
                 {"set:scopeModule/mode"})
    ELSE Outcome(self,
                 [dev EXCEPT !.scope_mode = 1, !.subscribed = TRUE, !.enable = 1],
                 "None",
                 {"set:scopeModule/mode", "call:scope.subscribe", "call:daq.sync",
                  "set:scopes/0/enable"})

\* UhfliDigitizer.stop_acquisition.  The argument of setInt on line 59 formats
\* self._address before the call is made.
Uhfli_stop_acquisition(self, dev) ==
    IF "_address" \notin UhfliInstanceAttributes
    THEN Outcome(self, dev, "AttributeError", {})
    ELSE Outcome(self, [dev EXCEPT !.enable = 0, !.executing = FALSE], "None",
                 {"set:scopes/0/enable", "call:scope.finish"})

\* UhfliDigitizer.acquire up to the first evaluation of the while test:
\* __create_setpoint_data (line 78 reads scope_length), scope.execute(), and
\* the locals records = 0, progress = 0, start = time.time().
Uhfli_acquire_enter(self, dev, number_of_averages, timeout) ==
    [self |-> [self EXCEPT !.setpoint_array = TRUE],
     dev |-> [dev EXCEPT !.executing = TRUE],
     ops |-> {"call:scope_length", "call:scope.execute"},
     frame |-> [number_of_averages |-> number_of_averages, timeout |-> timeout,
                records |-> 0, progress |-> 0, elapsed |-> 0]]

\* traces[wave_nodepath][:number_of_averages] on line 98: the number of records
\* the slice keeps out of those read
scope_traces_count(available, number_of_averages) ==
    IF number_of_averages >= 0
    THEN Min(number_of_averages, available)
    ELSE Max(0, available + number_of_averages)

\* Lines 96-110 after the loop: scope.read(True), then line 97 formats
\* self._address; __convert_scope_data reads self.channels and averages, for
\* each channel, the records the slice kept.  Its acquisition_counter (lines 103
\* and 109) is a local: the attribute of the instance is not written.
Uhfli_read_and_convert(self, dev, number_of_averages) ==
    IF "_address" \notin UhfliInstanceAttributes
    THEN Outcome(self, dev, "AttributeError", {"call:scope.read"})
    ELSE IF "channels" \notin UhfliInstanceAttributes
    THEN Outcome(self, dev, "AttributeError", {"call:scope.read"})
    ELSE Returning(self, dev, {"call:scope.read"}, None, dev.scope_length, 0,
                   scope_traces_count(dev.records, number_of_averages))

\* The pass of the loop with the message built from the count held before the
\* poll instead of the count just read
Uhfli_poll_stale_count(fr, records, progress, elapsed) ==
    LET polled == [fr EXCEPT !.records = records, !.progress = progress,
                             !.elapsed = elapsed]
    IN  IF scope_timed_out(elapsed, fr.timeout)
        THEN [frame |-> polled, next |-> "raise", reported |-> fr.records]
        ELSE IF scope_loop_continues(records, progress, fr.number_of_averages)
        THEN [frame |-> polled, next |-> "loop", reported |-> None]
        ELSE [frame |-> polled, next |-> "exit", reported |-> None]

\* The pass of the loop with the while test looked at before the clock: a
\* poll that finds the records complete ends the wait whatever the time
Uhfli_poll_completion_first(fr, records, progress, elapsed) ==
    LET polled == [fr EXCEPT !.records = records, !.progress = progress,
                             !.elapsed = elapsed]
    IN  IF ~scope_loop_continues(records, progress, fr.number_of_averages)
        THEN [frame |-> polled, next |-> "exit", reported |-> None]
        ELSE IF scope_timed_out(elapsed, fr.timeout)
        THEN [frame |-> polled, next |-> "raise", reported |-> records]
        ELSE [frame |-> polled, next |-> "loop", reported |-> None]

\* One pass of the while body (lines 90-94) and the test that follows it: the
\* device answers records and progress, the clock reads elapsed since start.
\* next is "loop" to poll again, "raise" for the TimeoutError, "exit" when the
\* while test fails and lines 96-99 run.  reported is the count formatted into
\* the TimeoutError message on line 93.
Uhfli_poll(fr, records, progress, elapsed) ==
    LET polled == [fr EXCEPT !.records = records, !.progress = progress,
                             !.elapsed = elapsed]
    IN  IF scope_timed_out(elapsed, fr.timeout)
        THEN [frame |-> polled, next |-> "raise",
              reported |-> records]
        ELSE IF scope_loop_continues(records, progress, fr.number_of_averages)
        THEN [frame |-> polled, next |-> "loop", reported |-> None]
        ELSE [frame |-> polled, next |-> "exit", reported |-> None]

----------------------------------------------------------------------------
(* State                                                                   *)

\* The instance before initialize has run: none of its attributes exist yet
M4iUninitialised ==
    [initialized |-> FALSE, verbose |-> 0, period |-> 0, mV_range |-> None,
     channels |-> <<>>, average_traces |-> FALSE, number_of_segments |-> 0,
     trigger_re_arm_padding |-> FALSE, trigger_re_arm_compensation |-> None,
     memory_settings |-> <<>>]

M4iDevices ==
    [exact_sample_rate : SampleRates, max_sample_rate : MaxSampleRates,
     memory : MemoryCapacities, signal_delay : SignalDelays,
     range_channel_0 : {1000},
     trigger_or_mask : {"SPC_TMASK_NONE"}, external_trigger_mode : {"SPC_TM_NONE"},
     data_memory_size : {0}, posttrigger_memory_size : {0}, channels_memsize : {None}]

M4iInitializeArguments ==
    [verbose : {0}, period : PeriodsUs, mV_range : RangesMv, channels : ChannelLists,
     average_traces : {TRUE}, number_of_segments : 1 .. MaxSegments,
     trigger_re_arm_padding : BOOLEAN, trigger_re_arm_compensation : {None, 1}]

UhfliDevices ==
    [scope_mode : {0}, subscribed : {FALSE}, enable : {0, 1}, executing : {FALSE},
     records : {0}, progress : {0}, scope_length : {4}]

NoFrame ==
    [number_of_averages |-> 0, timeout |-> 0, records |-> 0, progress |-> 0, elapsed |-> 0]

NoCall ==
    [op |-> "__init__", raised |-> "None", ops |-> {}, reported |-> None,
     number_of_averages |-> None, before |-> <<>>, result |-> NoResult]

\* The record of a finished or running public call.  before holds the instance
\* and device as the call found them (not kept for initialize, which replaces
\* the configuration; the instance alone for UhfliDigitizer.acquire).  result
\* is filled in by the action that ends the call.
Called(op, raised, ops, reported, n, self, dev) ==
    [op |-> op, raised |-> raised, ops |-> ops, reported |-> reported,
     number_of_averages |-> n, before |-> <<self, dev>>, result |-> NoResult]

\* The lifecycle after a call of op that ended with raised
Lifecycle(op, raised) ==
    IF op = "start_acquisition" /\ raised = "None" THEN "Acquiring"
    ELSE IF op = "stop_acquisition" THEN "Idle"
    ELSE lifecycle

Init ==
    /\ backend \in {"M4i", "Uhfli"}
    /\ m4i_self = M4iUninitialised
    /\ m4i_dev \in M4iDevices
    /\ uhfli_self = [acquisition_counter |-> 0, setpoint_array |-> FALSE]
    /\ uhfli_dev \in UhfliDevices
    /\ backend = "M4i" => uhfli_dev.enable = 0
    /\ backend = "Uhfli" => m4i_dev = CHOOSE d \in M4iDevices : TRUE
    /\ pc = "idle"
    /\ frame = NoFrame
    /\ call = NoCall
    /\ lifecycle = "Idle"

----------------------------------------------------------------------------
(* Actions: one per public method; UhfliDigitizer.acquire is UhfliAcquire  *)
(* followed by one UhfliPoll per pass of its loop.                         *)

M4iDone(op, n, out) ==
    /\ m4i_self' = out.self
    /\ m4i_dev' = out.dev
    /\ call' = IF op = "initialize"
               THEN [NoCall EXCEPT !.op = op, !.raised = out.raised, !.ops = out.ops]
               ELSE [Called(op, out.raised, out.ops, None, n, m4i_self, m4i_dev)
                        EXCEPT !.result = out.result]
    /\ lifecycle' = Lifecycle(op, out.raised)
    /\ UNCHANGED <<backend, uhfli_self, uhfli_dev, pc, frame>>

M4iInitialize ==
    /\ backend = "M4i"
    /\ \E a \in M4iInitializeArguments :
          M4iDone("initialize", None, M4i_initialize(m4i_self, m4i_dev, a))

M4iStartAcquisition ==
    /\ backend = "M4i"
    /\ M4iDone("start_acquisition", None, M4i_start_acquisition(m4i_self, m4i_dev))

M4iAcquire ==
    /\ backend = "M4i"
    /\ \E n \in Averages, timeout \in Timeouts :
          M4iDone("acquire", n, M4i_acquire(m4i_self, m4i_dev, n, timeout))

M4iStopAcquisition ==
    /\ backend = "M4i"
    /\ M4iDone("stop_acquisition", None, M4i_stop_acquisition(m4i_self, m4i_dev))

UhfliDone(op, out) ==
    /\ uhfli_self' = out.self
    /\ uhfli_dev' = out.dev
    /\ call' = Called(op, out.raised, out.ops, None, None, uhfli_self, uhfli_dev)
    /\ lifecycle' = Lifecycle(op, out.raised)
    /\ frame' = NoFrame
    /\ UNCHANGED <<backend, m4i_self, m4i_dev, pc>>

UhfliStartAcquisition ==
    /\ backend = "Uhfli"
    /\ pc = "idle"
    /\ UhfliDone("start_acquisition", Uhfli_start_acquisition(uhfli_self, uhfli_dev))

UhfliStopAcquisition ==
    /\ backend = "Uhfli"
    /\ pc = "idle"
    /\ UhfliDone("stop_acquisition", Uhfli_stop_acquisition(uhfli_self, uhfli_dev))

UhfliAcquire ==
    /\ backend = "Uhfli"
    /\ pc = "idle"
    /\ \E n \in Averages, timeout \in Timeouts :
          LET e == Uhfli_acquire_enter(uhfli_self, uhfli_dev, n, timeout)
          IN  /\ uhfli_self' = e.self
              /\ uhfli_dev' = e.dev
              /\ frame' = e.frame
              /\ pc' = "loop"
              /\ call' = [NoCall EXCEPT !.op = "acquire", !.raised = "running",
                                        !.ops = e.ops, !.number_of_averages = n,
                                        !.before = <<uhfli_self>>]
    /\ UNCHANGED <<backend, m4i_self, m4i_dev, lifecycle>>

\* A pass of the polling loop.  The device may report any record count and any
\* progress (kept in uhfli_dev as the scope module's current answers); the clock
\* never runs backwards, and moves by one of ticks between two passes.
UhfliPollTicks(ticks) ==
    /\ backend = "Uhfli"
    /\ pc = "loop"
    /\ \E records \in 0 .. MaxRecords, progress \in ProgressValues, tick \in ticks :
          /\ frame.elapsed + tick <= ElapsedCap
          /\ LET p == Uhfli_poll(frame, records, progress, frame.elapsed + tick)
                 polls == call.ops \cup {"get:scopeModule/records", "call:scope.progress"}
                 answered == [uhfli_dev EXCEPT !.records = records, !.progress = progress]
                 fin == Uhfli_read_and_convert(uhfli_self, answered, frame.number_of_averages)
             IN  /\ frame' = p.frame
                 /\ IF p.next = "loop"
                    THEN /\ pc' = "loop"
                         /\ call' = [call EXCEPT !.ops = polls]
                         /\ uhfli_self' = uhfli_self
                         /\ uhfli_dev' = answered
                    ELSE IF p.next = "raise"
                    THEN /\ pc' = "idle"
                         /\ call' = [call EXCEPT !.ops = polls, !.raised = "TimeoutError",
                                                 !.reported = p.reported]
                         /\ uhfli_self' = uhfli_self
                         /\ uhfli_dev' = answered
                    ELSE /\ pc' = "idle"
                         /\ call' = [call EXCEPT !.ops = polls \cup fin.ops,
                                                 !.raised = fin.raised,
                                                 !.result = fin.result]
                         /\ uhfli_self' = fin.self
                         /\ uhfli_dev' = fin.dev
    /\ UNCHANGED <<backend, m4i_self, m4i_dev, lifecycle>>

\* The clock may read the same between two passes
UhfliPoll == UhfliPollTicks(0 .. MaxTick)

\* The clock has moved between two passes
UhfliPollAdvancing == UhfliPollTicks(1 .. MaxTick)

Next ==
    \/ M4iInitialize
    \/ M4iStartAcquisition
    \/ M4iAcquire
    \/ M4iStopAcquisition
    \/ UhfliStartAcquisition
    \/ UhfliAcquire
    \/ UhfliPoll
    \/ UhfliStopAcquisition

Spec == Init /\ [][Next]_vars

\* The polling backend with a clock that advances between polls and a loop that
\* keeps running: acquire blocks its thread, and every call it makes on the
\* device returns.
InitUhfli == Init /\ backend = "Uhfli"

NextUhfliAdvancing ==
    \/ UhfliStartAcquisition
    \/ UhfliAcquire
    \/ UhfliPollAdvancing
    \/ UhfliStopAcquisition

SpecUhfliAdvancing ==
    InitUhfli /\ [][NextUhfliAdvancing]_vars /\ WF_vars(UhfliPollAdvancing)

----------------------------------------------------------------------------
(* Properties                                                              *)

UhfliAcquireCall == backend = "Uhfli" /\ call.op = "acquire"

UhfliPolled == UhfliAcquireCall /\ "get:scopeModule/records" \in call.ops

\* C1: the polling acquire goes on to read the records (the only way to its
\* return) only when the latest poll reported both records >= N and progress >=
\* 1.0; a poll with records >= N and progress < 1.0 never ends the wait.
C1_ReadsOnlyAfterBoth ==
    (UhfliAcquireCall /\ "call:scope.read" \in call.ops)
        => /\ uhfli_dev.records >= call.number_of_averages
           /\ uhfli_dev.progress >= ProgressOne
           /\ frame.records = uhfli_dev.records
           /\ frame.progress = uhfli_dev.progress

\* C1 witness: N records are in, progress is short of 1.0, time is left, and
\* acquire is still in its loop
C1_StillWaiting ==
    /\ UhfliPolled
    /\ pc = "loop"
    /\ call.number_of_averages > 0
    /\ uhfli_dev.records >= call.number_of_averages
    /\ uhfli_dev.progress < ProgressOne
    /\ frame.elapsed <= frame.timeout

\* C2: when the clock passes the timeout at a poll that found k < N records,
\* acquire raises TimeoutError and the message reports k, the count of that poll.
C2_TimeoutReportsLastCount ==
    /\ (UhfliPolled /\ frame.elapsed > frame.timeout
            /\ uhfli_dev.records < call.number_of_averages)
          => (pc = "idle" /\ call.raised = "TimeoutError"
                /\ call.reported = uhfli_dev.records)
    /\ (UhfliAcquireCall /\ call.raised = "TimeoutError"
            /\ uhfli_dev.records < call.number_of_averages)
          => (call.reported = uhfli_dev.records /\ frame.elapsed > frame.timeout)

\* C2 witness: N = 4, timeout 5, the device at 3 records when the time is up
C2_StalledAtThree ==
    /\ UhfliAcquireCall
    /\ call.raised = "TimeoutError"
    /\ call.number_of_averages = 4
    /\ frame.timeout = 5
    /\ uhfli_dev.records = 3
    /\ call.reported = 3

\* C3 (as claimed): an acquire with number_of_averages <= 0 raises ValueError
\* and performs no device operation.
C3_NonPositiveAveragesRejected ==
    (call.op = "acquire" /\ call.number_of_averages <= 0)
        => (call.raised = "ValueError" /\ call.ops = {})

M4iStartCall == backend = "M4i" /\ call.op = "start_acquisition"

\* Device operations that program the M4i
M4iDeviceWrites ==
    {"set:data_memory_size", "set:posttrigger_memory_size", "call:initialize_channels",
     "set:external_trigger_mode", "set:trigger_or_mask"}

RateInRange(dev) ==
    dev.exact_sample_rate # 0 /\ dev.exact_sample_rate <= dev.max_sample_rate

\* floor(period * sample_rate)
PointsInPeriod(self, dev) == (self.period * dev.exact_sample_rate) \div MicrosPerSecond

DelayOf(dev) == IF dev.signal_delay = None THEN 0 ELSE dev.signal_delay

\* ceil_to_multiple(number_points_period + 16 * trigger_delay, 16) + 16
BaseSegmentSize(self, dev) == ceil_n(PointsInPeriod(self, dev) + 16 * DelayOf(dev), 16) + 16

ExceedsCapacity(self, dev) == BaseSegmentSize(self, dev) * self.number_of_segments > dev.memory

\* An initialised instance, a sample rate in range, a plan that fits the memory
AcceptableConfiguration(self, dev) ==
    self.initialized /\ RateInRange(dev) /\ ~ExceedsCapacity(self, dev)

C4_Case ==
    /\ M4iStartCall
    /\ call.before[1].initialized
    /\ RateInRange(call.before[2])
    /\ ExceedsCapacity(call.before[1], call.before[2])

C5_Case ==
    /\ M4iStartCall
    /\ ~RateInRange(call.before[2])

C6_Case ==
    /\ M4iStartCall
    /\ AcceptableConfiguration(call.before[1], call.before[2])

\* C6 (as claimed): for every acceptable configuration, compensation on or off,
\* start_acquisition writes a total memory that is a multiple of 16 and equals
\* segment_count * (pre_trigger + post_trigger) for the post_trigger programmed.
C6_TotalMemoryProgrammed ==
    C6_Case => /\ "set:data_memory_size" \in call.ops
               /\ Len(m4i_self.memory_settings) = 4
               /\ m4i_dev.data_memory_size % 16 = 0
               /\ m4i_dev.data_memory_size =
                     m4i_self.number_of_segments
                        * (m4i_self.memory_settings[2] + m4i_dev.posttrigger_memory_size)

\* C7 (as claimed): with compensation disabled, the plan cached by
\* start_acquisition has signal_end - signal_start = floor(period * sample_rate).
C7_SignalWindowCached ==
    (C6_Case /\ call.before[1].trigger_re_arm_compensation = None)
        => /\ Len(m4i_self.memory_settings) = 4
           /\ m4i_self.memory_settings[4] - m4i_self.memory_settings[3]
                 = PointsInPeriod(m4i_self, m4i_dev)

C8_Started(flag) ==
    M4i_start_acquisition([m4i_self EXCEPT !.trigger_re_arm_compensation = flag], m4i_dev)

\* C8 (as claimed): for the same configuration, the post_trigger programmed with
\* compensation enabled is at most the post_trigger programmed with it disabled.
C8_CompensationOnlyReduces ==
    (backend = "M4i" /\ AcceptableConfiguration(m4i_self, m4i_dev))
        => /\ "set:posttrigger_memory_size" \in C8_Started(1).ops
           /\ "set:posttrigger_memory_size" \in C8_Started(None).ops
           /\ C8_Started(1).dev.posttrigger_memory_size
                 <= C8_Started(None).dev.posttrigger_memory_size

\* C9 (as claimed): with trigger delay 0 and compensation disabled the total
\* memory programmed is (ceil_to_multiple(floor(period * sample_rate), 16) + 16)
\* * segment_count; 1 ms at 1 MHz in 4 segments programs 4096.
C9_BaseSegmentProgrammed ==
    (C6_Case /\ DelayOf(call.before[2]) = 0
             /\ call.before[1].trigger_re_arm_compensation = None)
        => /\ call.raised = "None"
           /\ m4i_dev.data_memory_size =
                 (ceil_n(PointsInPeriod(m4i_self, m4i_dev), 16) + 16)
                    * m4i_self.number_of_segments
           /\ (m4i_self.period = 1000 /\ m4i_dev.exact_sample_rate = 1000000
                 /\ m4i_self.number_of_segments = 4)
                 => m4i_dev.data_memory_size = 4096

\* C10 (as claimed): stop_acquisition succeeds in every lifecycle state and
\* leaves the backend not acquiring (the scope of the UHFLI disabled).
C10_StopNeverFails ==
    call.op = "stop_acquisition"
        => /\ call.raised = "None"
           /\ backend = "Uhfli" => uhfli_dev.enable = 0

----------------------------------------------------------------------------
(* Properties of the lifecycle, the result and the re-entry                *)

AcquireEnded == call.op = "acquire" /\ pc = "idle"

AcquireDue ==
    /\ AcquireEnded
    /\ call.number_of_averages >= 1
    /\ backend = "M4i" => AcceptableConfiguration(call.before[1], m4i_dev)
    /\ backend = "Uhfli" => "call:scope.read" \in call.ops

\* C12 (as claimed): acquire returns a matrix with one row for each enabled
\* channel and signal_window_length columns (signal_end - signal_start for the
\* buffer backend), whatever the re-arm flags.
C12_ResultShape ==
    AcquireDue
        => /\ call.raised = "None"
           /\ backend = "M4i"
                => /\ Len(m4i_self.memory_settings) = 4
                   /\ call.result.rows = Len(m4i_self.channels)
                   /\ call.result.cols =
                         m4i_self.memory_settings[4] - m4i_self.memory_settings[3]
           /\ backend = "Uhfli"
                => /\ call.result.rows # None
                   /\ call.result.cols = uhfli_dev.scope_length

\* C13 (as claimed): a polling acquire whose N records completed within the
\* timeout returns, each row the mean over exactly N records.
C13_MeanOverExactlyN ==
    (UhfliAcquireCall /\ pc = "idle" /\ "call:scope.read" \in call.ops
        /\ call.number_of_averages >= 1)
        => /\ call.raised = "None"
           /\ call.result.records = call.number_of_averages

\* C14 (as claimed): the acquisition counter grows by one with each acquire
\* that completes, and is left alone by start_acquisition, stop_acquisition and
\* an acquire that times out.
C14_CounterCountsAcquires ==
    /\ (UhfliAcquireCall /\ pc = "idle" /\ "call:scope.read" \in call.ops)
          => uhfli_self.acquisition_counter = call.before[1].acquisition_counter + 1
    /\ (UhfliAcquireCall /\ call.raised = "TimeoutError")
          => uhfli_self.acquisition_counter = call.before[1].acquisition_counter
    /\ (backend = "Uhfli" /\ call.op \in {"start_acquisition", "stop_acquisition"})
          => uhfli_self.acquisition_counter = call.before[1].acquisition_counter

\* C15 (as claimed): an acquire asking for more records than the device can
\* hold fails with a configuration error, without waiting for them.
C15_DepthExceededRejected ==
    (UhfliAcquireCall /\ pc = "idle" /\ call.number_of_averages > MaxRecords)
        => /\ call.raised \in {"ConfigurationError", "ValueError"}
           /\ "get:scopeModule/records" \notin call.ops

C17_AcquireKeepsConfiguration ==
    (backend = "M4i" /\ call.op = "acquire") => m4i_self = call.before[1]

\* C17 witness: an acquire that failed after its capture, on an instance whose
\* range is still to be defaulted
C17_FailedAcquireOnConfigured ==
    /\ backend = "M4i"
    /\ AcquireEnded
    /\ m4i_self.initialized
    /\ m4i_self.mV_range = None
    /\ m4i_self.trigger_re_arm_padding
    /\ call.raised # "None"

\* C18 (as claimed): with the configuration and the sample rate unchanged,
\* every start_acquisition of a cycle succeeds, and a repeated one leaves the
\* memory_settings and the programmed registers of the cycle before.
C18_CycleRepeats ==
    (call.op = "start_acquisition" /\ pc = "idle"
        /\ (backend = "M4i" => AcceptableConfiguration(call.before[1], call.before[2])))
        => /\ call.raised = "None"
           /\ lifecycle = "Acquiring"
           /\ (backend = "M4i" /\ Len(call.before[1].memory_settings) = 4)
                => /\ m4i_self.memory_settings = call.before[1].memory_settings
                   /\ m4i_dev = call.before[2]

\* C19 (as claimed): with re-arm compensation and padding both enabled, acquire
\* returns signal_end - signal_start columns: the sliced capture, then zeros.
C19_PaddedToWindow ==
    (backend = "M4i" /\ AcquireDue
        /\ call.before[1].trigger_re_arm_compensation = 1
        /\ call.before[1].trigger_re_arm_padding)
        => /\ call.raised = "None"
           /\ Len(m4i_self.memory_settings) = 4
           /\ call.result.cols = m4i_self.memory_settings[4] - m4i_self.memory_settings[3]
           /\ call.result.zeros =
                 call.result.cols
                    - slice_columns(m4i_dev.data_memory_size,
                                    m4i_self.memory_settings[3], m4i_self.memory_settings[4])

\* C20 (as claimed): with compensation enabled, the total memory written to the
\* device, the one cached in memory_settings and the memsize given to
\* initialize_channels are one value, (pre_trigger + post_trigger) * segments.
C20_OneTotalMemory ==
    (C6_Case /\ call.before[1].trigger_re_arm_compensation = 1)
        => /\ "call:initialize_channels" \in call.ops
           /\ Len(m4i_self.memory_settings) = 4
           /\ m4i_dev.data_memory_size = m4i_self.memory_settings[1]
           /\ m4i_dev.channels_memsize = m4i_dev.data_memory_size
           /\ m4i_dev.data_memory_size =
                 (m4i_self.memory_settings[2] + m4i_dev.posttrigger_memory_size)
                    * m4i_self.number_of_segments

----------------------------------------------------------------------------
(* Properties of the memory plan and of the deadline                       *)

\* C21 (as claimed): after start_acquisition on an acceptable configuration,
\* the total memory, the pre-trigger size, signal_start and signal_end of the
\* cached plan are each a multiple of 16.
C21_PlanAligned ==
    C6_Case
        => /\ call.raised = "None"
           /\ Len(m4i_self.memory_settings) = 4
           /\ \A i \in 1 .. 4 : m4i_self.memory_settings[i] % 16 = 0

\* C22 (as claimed): after start_acquisition on an acceptable configuration,
\* with a trigger delay or without, pre_trigger + post_trigger is the segment
\* size, the total memory is segment size * segment count, and the total memory
\* is at most the memory of the device.
C22_PlanAddsUp ==
    C6_Case
        => /\ call.raised = "None"
           /\ Len(m4i_self.memory_settings) = 4
           /\ m4i_self.memory_settings[2] + m4i_dev.posttrigger_memory_size
                 = BaseSegmentSize(m4i_self, m4i_dev)
           /\ m4i_self.memory_settings[1]
                 = BaseSegmentSize(m4i_self, m4i_dev) * m4i_self.number_of_segments
           /\ m4i_self.memory_settings[1] <= m4i_dev.memory

\* C23: the polling acquire tests the clock at each poll before it looks at
\* completion again: a poll made after the deadline raises TimeoutError even
\* when it finds the N records complete, and the records are read (the only
\* way to a return) only after a poll made within the timeout.
C23_DeadlineBeforeCompletion ==
    (UhfliPolled /\ pc = "idle")
        => /\ frame.elapsed > frame.timeout
                => /\ call.raised = "TimeoutError"
                   /\ "call:scope.read" \notin call.ops
           /\ "call:scope.read" \in call.ops => frame.elapsed <= frame.timeout
           /\ call.raised = "None" => "call:scope.read" \in call.ops

\* C23 witness: the poll that found the N records complete came after the
\* deadline, and acquire raised TimeoutError
C23_CompleteButLate ==
    /\ UhfliPolled
    /\ pc = "idle"
    /\ call.number_of_averages >= 1
    /\ frame.records >= call.number_of_averages
    /\ frame.progress = ProgressOne
    /\ frame.elapsed > frame.timeout
    /\ call.raised = "TimeoutError"
    /\ call.reported = frame.records

\* C24 (as claimed): the poll that raises TimeoutError leaves the enable flag,
\* the subscription and the lifecycle as they were, and the stop_acquisition
\* that follows a timed-out acquire is accepted and disables the scope.
C24_TimeoutKeepsAcquiring ==
    [][/\ (pc = "loop" /\ call'.raised = "TimeoutError")
            => /\ uhfli_dev'.enable = uhfli_dev.enable
               /\ uhfli_dev'.subscribed = uhfli_dev.subscribed
               /\ lifecycle' = lifecycle
       /\ (UhfliAcquireCall /\ call.raised = "TimeoutError"
                /\ call'.op = "stop_acquisition")
            => /\ call'.raised = "None"
               /\ uhfli_dev'.enable = 0]_vars

\* C25 (as claimed): for every acceptable configuration, compensation on or
\* off, short periods included, start_acquisition programs a post_trigger and a
\* total memory that are both strictly positive.
C25_ProgrammedSizesPositive ==
    C6_Case
        => /\ "set:posttrigger_memory_size" \in call.ops
           /\ "set:data_memory_size" \in call.ops
           /\ m4i_dev.posttrigger_memory_size > 0
           /\ m4i_dev.data_memory_size > 0

====
